---- MODULE Spec2Model ----
(***************************************************************************)
(* Model of src/deepresearch: the MagenticLoggingManager and the logging   *)
(* overrides of EnhancedMagenticManager; and of src/self_chatbot/backend:  *)
(* the chat and session routes over the ChatSession / ChatMessage tables.  *)
(*                                                                         *)
(* Every override in enhanced_agentic.py records log entries and then      *)
(* delegates to the base class it inherits from (StandardMagenticManager,  *)
(* MagenticManagerActor, ... of the semantic_kernel package).  The base    *)
(* classes are imported, not part of the repository: a delegated call is   *)
(* modelled by the only thing the override observes of it, whether it      *)
(* returns a value or raises.                                              *)
(*                                                                         *)
(* A registered callback is a callable supplied by the user of the logging *)
(* manager: an invocation of it returns, raises an Exception, or does not  *)
(* return.                                                                 *)
(***************************************************************************)
EXTENDS Integers, Sequences, FiniteSets, TLC

\* ---- bounds of the model ----
MaxLogCalls == 3
MaxCallbacks == 2
MaxManagers == 3
MaxOrchLogs == 3
MaxSessions == 2
MaxMessages == 2
MaxRequests == 3
MaxChunks == 2

\* ---- values ----
Callbacks == {"cb1", "cb2"}
Results == {"r1", "r2"}
Errors == {"e1", "e2"}
\* exceptions that derive from BaseException only: "except Exception" lets them pass
BaseExceptions == {"CancelledError"}
ManagerOps == {"plan", "replan", "create_progress_ledger", "prepare_final_answer"}
NoValue == "none"
\* None where a manager object (1..created) is expected
NoManager == 0
Orchestrations == {"o1", "o2"}
\* session_id absent from the request (None; 0 is falsy as well)
NoSession == 0
SessionNames == {"New Chat"}
\* f"Chat with {model_name}": the name chat() gives the session it creates
\* (which model it names is not tracked)
AutoSessionName == "Chat with <model_name>"
\* model names: one that the configuration lists and one that it does not
KnownModels == {"gpt"}
Models == {"gpt", "unlisted"}
\* chunks of streamed text, as sequences of characters
Chunks == {<<" ">>, <<"a">>}
\* the chunk "Error: ..." that LLMClient yields when generation fails
ErrorChunk == <<"E", "r", "r">>

VARIABLES
    logs,       \* MagenticLoggingManager.logs: sequence of LogEntry
    callbacks,  \* MagenticLoggingManager.callbacks: sequence of callables
    delivered,  \* per callback, the entry ids it has been called with, in order
    nextId,     \* number of LogEntry objects created so far (stands for uuid4)
    blocked,    \* TRUE when log() is inside a callback that has not returned
    mgrOp,      \* the EnhancedMagenticManager method currently awaiting super()
    mgrOut,     \* what the last finished method did: <<"returned"|"raised", value>>
    created,    \* number of MagenticLoggingManager objects constructed (1..created)
    globalMgr,  \* _global_logging_manager: NoManager (None) or a manager object
    orchMgr,    \* per orchestration, its self.logging_manager (NoManager: not constructed)
    orchGiven,  \* per orchestration, whether logging_manager was passed to __init__
    mgrLogs,    \* per manager object, the entries orchestrations have logged to it
    sessions,   \* table chat_sessions: id -> row
    messages,   \* table chat_messages: rows in insertion order
    nextSid,    \* next value of the chat_sessions id sequence
    nextMid,    \* next value of the chat_messages id sequence
    reqNo,      \* number of HTTP requests answered
    resp,       \* the last HTTP response
    stream      \* the generator of generate_streaming_response being consumed

logVars == <<logs, callbacks, delivered, nextId, blocked, mgrOp, mgrOut>>
orchVars == <<created, globalMgr, orchMgr, orchGiven, mgrLogs>>
chatVars == <<sessions, messages, nextSid, nextMid, reqNo, resp, stream>>
vars == <<logs, callbacks, delivered, nextId, blocked, mgrOp, mgrOut,
          created, globalMgr, orchMgr, orchGiven, mgrLogs,
          sessions, messages, nextSid, nextMid, reqNo, resp, stream>>

\* LogEntry: id, level, log_type, source and the message (by its fixed text)
LogEntry(id, level, log_type, source, message) ==
    [id |-> id, level |-> level, log_type |-> log_type,
     source |-> source, message |-> message]

\* callbacks.remove(cb): drops the first occurrence
RECURSIVE SeqRemoveFirst(_, _)
SeqRemoveFirst(s, x) ==
    IF s = <<>> THEN <<>>
    ELSE IF Head(s) = x THEN Tail(s)
    ELSE <<Head(s)>> \o SeqRemoveFirst(Tail(s), x)

SeqContains(s, x) == \E i \in 1..Len(s) : s[i] = x

\* the for-loop of log(): each registered callback is called with the entry,
\* in list order; an exception of a callback is caught inside the loop
RECURSIVE RunCallbacks(_, _, _)
RunCallbacks(cbs, entry, d) ==
    IF cbs = <<>> THEN d
    ELSE RunCallbacks(Tail(cbs), entry,
                      [d EXCEPT ![Head(cbs)] = Append(@, entry.id)])

\* "callback(entry)" is an ordinary call made by log() itself: the loop goes
\* on to the next callback when the call returns or raises an Exception, and
\* log() stays inside the k-th call when that call does not return (k = 0:
\* every call came back)
CallCallbacks(entry) ==
    \E k \in 0..Len(callbacks) :
        /\ delivered' = RunCallbacks(
                SubSeq(callbacks, 1, IF k = 0 THEN Len(callbacks) ELSE k),
                entry, delivered)
        /\ blocked' = (k # 0)

\* MagenticLoggingManager.log: the next values of logs, delivered, nextId
LogAppend(entry) == Append(logs, entry)

DoLog(level, log_type, source, message) ==
    LET entry == LogEntry(nextId + 1, level, log_type, source, message) IN
    /\ nextId < MaxLogCalls
    /\ ~blocked
    /\ logs' = LogAppend(entry)
    /\ CallCallbacks(entry)
    /\ nextId' = nextId + 1

Init ==
    /\ logs = <<>>
    /\ callbacks = <<>>
    /\ delivered = [cb \in Callbacks |-> <<>>]
    /\ nextId = 0
    /\ blocked = FALSE
    /\ mgrOp = NoValue
    /\ mgrOut = <<NoValue, NoValue>>
    /\ created = 0
    /\ globalMgr = NoManager
    /\ orchMgr = [o \in Orchestrations |-> NoManager]
    /\ orchGiven = [o \in Orchestrations |-> FALSE]
    /\ mgrLogs = [m \in 1..MaxManagers |-> <<>>]
    /\ sessions = <<>>
    /\ messages = <<>>
    /\ nextSid = 1
    /\ nextMid = 1
    /\ reqNo = 0
    /\ resp = [op |-> NoValue, status |-> 0, sid |-> NoSession,
               given |-> NoSession, streaming |-> FALSE]
    /\ stream = [pc |-> "none", sid |-> NoSession, model |-> NoValue,
                 open |-> FALSE, chunks |-> <<>>, events |-> <<>>, saved |-> 0]

add_callback(cb) ==
    /\ Len(callbacks) < MaxCallbacks
    /\ ~blocked
    /\ callbacks' = Append(callbacks, cb)
    /\ UNCHANGED <<logs, delivered, nextId, blocked, mgrOp, mgrOut>>

remove_callback(cb) ==
    /\ SeqContains(callbacks, cb)
    /\ ~blocked
    /\ callbacks' = SeqRemoveFirst(callbacks, cb)
    /\ UNCHANGED <<logs, delivered, nextId, blocked, mgrOp, mgrOut>>

\* clear_logs: logs.clear() and then one log() call
clear_logs ==
    LET entry == LogEntry(nextId + 1, "INFO", "SYSTEM_MESSAGE",
                          "LoggingManager", "Logs cleared") IN
    /\ nextId < MaxLogCalls
    /\ ~blocked
    /\ logs' = <<entry>>
    /\ CallCallbacks(entry)
    /\ nextId' = nextId + 1
    /\ UNCHANGED <<callbacks, mgrOp, mgrOut>>

\* ---- EnhancedMagenticManager: plan / replan / create_progress_ledger /
\*      prepare_final_answer ----
StartLevel(op) == IF op = "create_progress_ledger" THEN "DEBUG" ELSE "INFO"

OpLogType(op) ==
    CASE op = "plan" -> "TASK_PLANNING"
      [] op = "replan" -> "TASK_REPLANNING"
      [] op = "create_progress_ledger" -> "PROGRESS_LEDGER"
      [] op = "prepare_final_answer" -> "FINAL_ANSWER"

\* the method is entered: the start entry is logged, then super() is awaited
\* (the statements after a log() call run only once log() has returned)
ManagerCall(op) ==
    /\ mgrOp = NoValue
    /\ DoLog(StartLevel(op), OpLogType(op), "EnhancedMagenticManager",
             <<op, "start">>)
    /\ mgrOp' = IF blocked' THEN mgrOp ELSE op
    /\ mgrOut' = <<NoValue, NoValue>>
    /\ UNCHANGED callbacks

\* super() returned r: the completion entry is logged and r is returned
ManagerReturn(r) ==
    /\ mgrOp # NoValue
    /\ DoLog("INFO", OpLogType(mgrOp), "EnhancedMagenticManager",
             <<mgrOp, "completed">>)
    /\ mgrOp' = IF blocked' THEN mgrOp ELSE NoValue
    /\ mgrOut' = IF blocked' THEN mgrOut ELSE <<"returned", r>>
    /\ UNCHANGED callbacks

\* super() raised e: the ERROR entry is logged and e is raised again
ManagerRaise(e) ==
    /\ mgrOp # NoValue
    /\ DoLog("ERROR", "ERROR_MESSAGE", "EnhancedMagenticManager",
             <<mgrOp, "error">>)
    /\ mgrOp' = IF blocked' THEN mgrOp ELSE NoValue
    /\ mgrOut' = IF blocked' THEN mgrOut ELSE <<"raised", e>>
    /\ UNCHANGED callbacks

\* the awaited super() raised b, which is not an Exception (the task was
\* cancelled at the await): no except branch matches, b leaves the method
ManagerCancel(b) ==
    /\ mgrOp # NoValue
    /\ ~blocked
    /\ mgrOp' = NoValue
    /\ mgrOut' = <<"raised", b>>
    /\ UNCHANGED <<logs, callbacks, delivered, nextId, blocked>>

\* ---- the process-wide default manager and EnhancedMagenticOrchestration ----
\* MagenticLoggingManager(): a new manager object
new_manager ==
    /\ created < MaxManagers
    /\ created' = created + 1
    /\ UNCHANGED <<globalMgr, orchMgr, orchGiven, mgrLogs>>

set_global_logging_manager(m) ==
    /\ globalMgr' = m
    /\ UNCHANGED <<created, orchMgr, orchGiven, mgrLogs>>

reset_global_logging_manager ==
    /\ globalMgr' = NoManager
    /\ UNCHANGED <<created, orchMgr, orchGiven, mgrLogs>>

\* a variant of __init__ that gives an orchestration without a manager a
\* private one and leaves the global alone
OrchestrationInitPrivateDefault(o, given) ==
    /\ orchMgr[o] = NoManager
    /\ orchGiven' = [orchGiven EXCEPT ![o] = (given # NoManager)]
    /\ IF given # NoManager
       THEN /\ orchMgr' = [orchMgr EXCEPT ![o] = given]
            /\ UNCHANGED <<created, globalMgr>>
       ELSE /\ created < MaxManagers
            /\ created' = created + 1
            /\ orchMgr' = [orchMgr EXCEPT ![o] = created + 1]
            /\ UNCHANGED globalMgr
    /\ UNCHANGED mgrLogs

\* EnhancedMagenticOrchestration.__init__:
\*   self.logging_manager = logging_manager or get_global_logging_manager()
\* get_global_logging_manager constructs the global manager when it is None
OrchestrationInit(o, given) ==
    /\ orchMgr[o] = NoManager
    /\ orchGiven' = [orchGiven EXCEPT ![o] = (given # NoManager)]
    /\ IF given # NoManager
       THEN /\ orchMgr' = [orchMgr EXCEPT ![o] = given]
            /\ UNCHANGED <<created, globalMgr>>
       ELSE IF globalMgr # NoManager
       THEN /\ orchMgr' = [orchMgr EXCEPT ![o] = globalMgr]
            /\ UNCHANGED <<created, globalMgr>>
       ELSE /\ created < MaxManagers
            /\ created' = created + 1
            /\ globalMgr' = created + 1
            /\ orchMgr' = [orchMgr EXCEPT ![o] = created + 1]
    /\ UNCHANGED mgrLogs

OrchLogCalls ==
    LET RECURSIVE Sum(_)
        Sum(m) == IF m = 0 THEN 0 ELSE Len(mgrLogs[m]) + Sum(m - 1)
    IN Sum(MaxManagers)

\* _register_members / _register_manager: one log() call on the
\* orchestration's manager before the actors are registered
OrchestrationRegister(o, what) ==
    LET m == orchMgr[o]
        entry == LogEntry(Len(mgrLogs[m]) + 1, "INFO", "SYSTEM_MESSAGE",
                          "EnhancedMagenticOrchestration", <<o, what>>) IN
    /\ orchMgr[o] # NoManager
    /\ OrchLogCalls < MaxOrchLogs
    /\ mgrLogs' = [mgrLogs EXCEPT ![m] = Append(@, entry)]
    /\ UNCHANGED <<created, globalMgr, orchMgr, orchGiven>>

\* ---- self_chatbot/backend: chat and session routes ----
\* ChatSession row: the columns the routes update (the id is its key)
SessionRow(session_name) ==
    [session_name |-> session_name, is_favorite |-> FALSE]

\* db.session.add(session); commit: the row gets the next id of the sequence
AddSession(tbl, id, row) ==
    [i \in (DOMAIN tbl) \cup {id} |-> IF i = id THEN row ELSE tbl[i]]

RemoveSession(tbl, id) == [i \in (DOMAIN tbl) \ {id} |-> tbl[i]]

\* ChatMessage.create_user_message / create_assistant_message
UserMessage(id, session_id, content) ==
    [id |-> id, session_id |-> session_id, message_type |-> "user",
     content |-> content, model_name |-> NoValue]

AssistantMessage(id, session_id, content, model_name) ==
    [id |-> id, session_id |-> session_id, message_type |-> "assistant",
     content |-> content, model_name |-> model_name]

\* LLMClient.generate_response: the text returned for a configured model
ResponseText(model_name, message) == <<"dummy response", model_name, message>>

\* a variant of the non-streaming branch that returns the text without saving it
SaveAssistantResponseSkipped(msgs, id, session_id, text, model_name) == msgs

\* chat(), non-streaming branch: the assistant message is added and committed
SaveAssistantResponse(msgs, id, session_id, text, model_name) ==
    Append(msgs, AssistantMessage(id, session_id, text, model_name))

\* the response, with what the request asked for when it was served (200)
Respond(op, status, sid, given, streaming) ==
    /\ resp' = [op |-> op, status |-> status, sid |-> sid,
                given |-> IF status = 200 THEN given ELSE NoSession,
                streaming |-> (status = 200 /\ streaming)]
    /\ reqNo' = reqNo + 1

NewStream(session_id, model_name) ==
    [pc |-> "running", sid |-> session_id, model |-> model_name,
     open |-> TRUE, chunks |-> <<>>, events |-> <<>>, saved |-> 0]

\* JSON bodies of POST /chat; hasFields: 'message' and 'model' are both
\* present. A body without them is rejected before anything else is read.
ChatRequests ==
    {d \in [hasFields : BOOLEAN, model : Models,
            session_id : {NoSession} \cup (1..MaxSessions),
            image_data : {"none", "valid", "invalid"}, stream : BOOLEAN] :
        d.hasFields \/ (d.model = "gpt" /\ d.session_id = NoSession
                        /\ d.image_data = "none" /\ ~d.stream)}

\* POST /chat
chat(hasFields, model_name, given, image, streaming) ==
    LET message == "hi"
        isNew == (given = NoSession)
        session_id == IF isNew THEN nextSid ELSE given
        sessions1 == IF isNew
                     THEN AddSession(sessions, nextSid,
                                     SessionRow(AutoSessionName))
                     ELSE sessions
        nextSid1 == IF isNew THEN nextSid + 1 ELSE nextSid
        messages1 == Append(messages, UserMessage(nextMid, session_id, message))
    IN
    /\ reqNo < MaxRequests
    /\ IF ~hasFields
       THEN /\ Respond("chat", 400, NoSession, given, streaming)
            /\ UNCHANGED <<sessions, messages, nextSid, nextMid, stream>>
       ELSE IF ~isNew /\ given \notin DOMAIN sessions
       THEN /\ Respond("chat", 404, NoSession, given, streaming)
            /\ UNCHANGED <<sessions, messages, nextSid, nextMid, stream>>
       ELSE /\ isNew => nextSid <= MaxSessions
            /\ sessions' = sessions1
            /\ nextSid' = nextSid1
            /\ IF image = "invalid"
               THEN /\ Respond("chat", 400, NoSession, given, streaming)
                    /\ UNCHANGED <<messages, nextMid, stream>>
               ELSE /\ Len(messages) + 2 <= MaxMessages
                    /\ IF streaming
                       THEN /\ stream.pc # "running"
                            /\ messages' = messages1
                            /\ nextMid' = nextMid + 1
                            /\ stream' = NewStream(session_id, model_name)
                            /\ Respond("chat", 200, session_id, given, streaming)
                       ELSE IF model_name \in KnownModels
                       THEN /\ messages' = SaveAssistantResponse(messages1, nextMid + 1,
                                                session_id,
                                                ResponseText(model_name, message),
                                                model_name)
                            /\ nextMid' = nextMid + 2
                            /\ Respond("chat", 200, session_id, given, streaming)
                            /\ UNCHANGED stream
                       ELSE \* generate_response raises ValueError: except branch
                            /\ messages' = messages1
                            /\ nextMid' = nextMid + 1
                            /\ Respond("chat", 500, NoSession, given, streaming)
                            /\ UNCHANGED stream

\* ---- generate_streaming_response ----
RECURSIVE Join(_)
Join(chunks) == IF chunks = <<>> THEN <<>> ELSE Head(chunks) \o Join(Tail(chunks))

RECURSIVE LStrip(_)
LStrip(text) ==
    IF text # <<>> /\ Head(text) = " " THEN LStrip(Tail(text)) ELSE text

RECURSIVE RStrip(_)
RStrip(text) ==
    IF text # <<>> /\ text[Len(text)] = " "
    THEN RStrip(SubSeq(text, 1, Len(text) - 1)) ELSE text

Strip(text) == RStrip(LStrip(text))

\* a variant of the test that saves every non-empty response
ShouldSaveNonEmpty(chunks) == Join(chunks) # <<>>

\* "if full_response.strip():"
ShouldSave(chunks) == Strip(Join(chunks)) # <<>>

ChunkEvent(c) == [type |-> "chunk", content |-> c, message_id |-> 0]

\* the for-loop body for one chunk yielded by the LLM client
StreamChunk(c) ==
    /\ stream.pc = "running"
    /\ stream.open
    /\ stream.model \in KnownModels
    /\ Len(stream.chunks) < MaxChunks
    /\ stream' = [stream EXCEPT !.chunks = Append(@, c),
                                !.events = Append(@, ChunkEvent(c))]
    /\ UNCHANGED <<sessions, messages, nextSid, nextMid, reqNo, resp>>

\* LLMClient.generate_streaming_response caught an exception (for a model the
\* configuration does not list, the ValueError it raises itself): it yields
\* one "Error: ..." chunk and ends
StreamErrorChunk ==
    /\ stream.pc = "running"
    /\ stream.open
    /\ stream' = [stream EXCEPT !.chunks = Append(@, ErrorChunk),
                                !.events = Append(@, ChunkEvent(ErrorChunk)),
                                !.open = FALSE]
    /\ UNCHANGED <<sessions, messages, nextSid, nextMid, reqNo, resp>>

\* the generator's last step: the terminal event is yielded
StreamEnd(type, message_id, saved) ==
    [stream EXCEPT !.pc = "done", !.open = FALSE, !.saved = @ + saved,
                   !.events = Append(@, [type |-> type, content |-> <<>>,
                                         message_id |-> message_id])]

\* the LLM client's generator is exhausted: the code after the for-loop.
\* The add and commit of the assistant message either succeed or raise (as
\* they do when the session row is gone: foreign key chat_messages.session_id),
\* and a raise ends in the except branch.
StreamFinish ==
    /\ stream.pc = "running"
    /\ stream.model \in KnownModels \/ ~stream.open
    /\ \/ /\ ShouldSave(stream.chunks)
          /\ stream.sid \in DOMAIN sessions
          /\ Len(messages) < MaxMessages
          /\ messages' = Append(messages,
                 AssistantMessage(nextMid, stream.sid,
                                  Join(stream.chunks), stream.model))
          /\ nextMid' = nextMid + 1
          /\ stream' = StreamEnd("complete", nextMid, 1)
       \/ /\ ShouldSave(stream.chunks)
          /\ stream' = StreamEnd("error", 0, 0)
          /\ UNCHANGED <<messages, nextMid>>
       \/ /\ ~ShouldSave(stream.chunks)
          /\ stream' = StreamEnd("complete", 0, 0)
          /\ UNCHANGED <<messages, nextMid>>
    /\ UNCHANGED <<sessions, nextSid, reqNo, resp>>

\* ---- history_routes ----
\* POST /sessions
create_session(session_name) ==
    /\ reqNo < MaxRequests
    /\ nextSid <= MaxSessions
    /\ sessions' = AddSession(sessions, nextSid, SessionRow(session_name))
    /\ nextSid' = nextSid + 1
    /\ Respond("create_session", 201, nextSid, NoSession, FALSE)
    /\ UNCHANGED <<messages, nextMid, stream>>

\* GET /sessions/<id>
get_session(session_id) ==
    /\ reqNo < MaxRequests
    /\ Respond("get_session",
               IF session_id \in DOMAIN sessions THEN 200 ELSE 404,
               session_id, NoSession, FALSE)
    /\ UNCHANGED <<sessions, messages, nextSid, nextMid, stream>>

\* PUT /sessions/<id>; keys: the keys present in the JSON body
update_session(session_id, keys, session_name, is_favorite) ==
    /\ reqNo < MaxRequests
    /\ IF session_id \notin DOMAIN sessions
       THEN /\ Respond("update_session", 404, session_id, NoSession, FALSE)
            /\ UNCHANGED sessions
       ELSE /\ sessions' = [sessions EXCEPT ![session_id] =
                [@ EXCEPT !.session_name =
                              IF "session_name" \in keys THEN session_name ELSE @,
                          !.is_favorite =
                              IF "is_favorite" \in keys THEN is_favorite ELSE @]]
            /\ Respond("update_session", 200, session_id, NoSession, FALSE)
    /\ UNCHANGED <<messages, nextSid, nextMid, stream>>

\* a variant of the delete that leaves the session's messages in the table
MessagesAfterDeleteKept(msgs, session_id) == msgs

\* relationship(..., cascade='all, delete-orphan'): deleting the session
\* deletes its messages
MessagesAfterDelete(msgs, session_id) ==
    SelectSeq(msgs, LAMBDA m : m.session_id # session_id)

\* DELETE /sessions/<id>
delete_session(session_id) ==
    /\ reqNo < MaxRequests
    /\ IF session_id \notin DOMAIN sessions
       THEN /\ Respond("delete_session", 404, session_id, NoSession, FALSE)
            /\ UNCHANGED <<sessions, messages>>
       ELSE /\ sessions' = RemoveSession(sessions, session_id)
            /\ messages' = MessagesAfterDelete(messages, session_id)
            /\ Respond("delete_session", 200, session_id, NoSession, FALSE)
    /\ UNCHANGED <<nextSid, nextMid, stream>>

\* POST /sessions/<id>/favorite
toggle_favorite(session_id) ==
    /\ reqNo < MaxRequests
    /\ IF session_id \notin DOMAIN sessions
       THEN /\ Respond("toggle_favorite", 404, session_id, NoSession, FALSE)
            /\ UNCHANGED sessions
       ELSE /\ sessions' = [sessions EXCEPT ![session_id].is_favorite = ~@]
            /\ Respond("toggle_favorite", 200, session_id, NoSession, FALSE)
    /\ UNCHANGED <<messages, nextSid, nextMid, stream>>

NextChat ==
    \/ (\E data \in ChatRequests :
            chat(data.hasFields, data.model, data.session_id, data.image_data,
                 data.stream))
       /\ UNCHANGED <<logVars, orchVars>>
    \/ (\E c \in Chunks : StreamChunk(c)) /\ UNCHANGED <<logVars, orchVars>>
    \/ StreamErrorChunk /\ UNCHANGED <<logVars, orchVars>>
    \/ StreamFinish /\ UNCHANGED <<logVars, orchVars>>
    \/ (\E session_name \in SessionNames : create_session(session_name))
       /\ UNCHANGED <<logVars, orchVars>>
    \/ (\E id \in 1..MaxSessions : get_session(id)) /\ UNCHANGED <<logVars, orchVars>>
    \/ (\E id \in 1..MaxSessions, keys \in SUBSET {"session_name", "is_favorite"},
           session_name \in SessionNames, is_favorite \in BOOLEAN :
            update_session(id, keys, session_name, is_favorite))
       /\ UNCHANGED <<logVars, orchVars>>
    \/ (\E id \in 1..MaxSessions : delete_session(id)) /\ UNCHANGED <<logVars, orchVars>>
    \/ (\E id \in 1..MaxSessions : toggle_favorite(id)) /\ UNCHANGED <<logVars, orchVars>>

Next ==
    \/ (\E cb \in Callbacks : add_callback(cb)) /\ UNCHANGED <<orchVars, chatVars>>
    \/ (\E cb \in Callbacks : remove_callback(cb)) /\ UNCHANGED <<orchVars, chatVars>>
    \/ clear_logs /\ UNCHANGED <<orchVars, chatVars>>
    \/ (\E op \in ManagerOps : ManagerCall(op)) /\ UNCHANGED <<orchVars, chatVars>>
    \/ (\E r \in Results : ManagerReturn(r)) /\ UNCHANGED <<orchVars, chatVars>>
    \/ (\E e \in Errors : ManagerRaise(e)) /\ UNCHANGED <<orchVars, chatVars>>
    \/ (\E b \in BaseExceptions : ManagerCancel(b)) /\ UNCHANGED <<orchVars, chatVars>>

NextOrch ==
    \/ new_manager /\ UNCHANGED <<logVars, chatVars>>
    \/ (\E m \in 1..created : set_global_logging_manager(m)) /\ UNCHANGED <<logVars, chatVars>>
    \/ reset_global_logging_manager /\ UNCHANGED <<logVars, chatVars>>
    \/ (\E o \in Orchestrations, given \in {NoManager} \cup (1..created) :
            OrchestrationInit(o, given)) /\ UNCHANGED <<logVars, chatVars>>
    \/ (\E o \in Orchestrations, what \in {"Registering agents", "Registering manager"} :
            OrchestrationRegister(o, what)) /\ UNCHANGED <<logVars, chatVars>>

Spec == Init /\ [][Next]_vars

\* orchestrations and the global manager, with the logging manager's own
\* state left as constructed
SpecOrch == Init /\ [][NextOrch]_vars

\* the chat backend, with the orchestration logging left as constructed
SpecChat == Init /\ [][NextChat]_vars

TypeOK ==
    /\ nextId \in 0..MaxLogCalls
    /\ Len(logs) <= nextId
    /\ Len(callbacks) <= MaxCallbacks
    /\ blocked \in BOOLEAN
    /\ mgrOp \in ManagerOps \cup {NoValue}

\* ---- claims ----
\* a step in which a manager method stops awaiting and raises
RaisesStep == mgrOp # NoValue /\ mgrOp' = NoValue /\ mgrOut'[1] = "raised"

\* the step appended one ERROR entry about the method to the stored log
ErrorRecorded ==
    /\ Len(logs') = Len(logs) + 1
    /\ logs'[Len(logs')].level = "ERROR"
    /\ logs'[Len(logs')].message = <<mgrOp, "error">>

\* C15 (as stated): whenever plan, replan, create_progress_ledger or
\* prepare_final_answer raises, an error-severity entry has been recorded
\* before the exception leaves the manager.
C15_AnyRaiseIsLogged == [][RaisesStep => ErrorRecorded]_vars

\* What the except branches do guarantee: an exception that derives from
\* Exception leaves a method only after an ERROR entry about that method was
\* appended to the log.
ExceptionIsLogged ==
    [][(RaisesStep /\ mgrOut'[2] \in Errors) => ErrorRecorded]_vars

\* a manager method has raised an Exception and the ERROR entry is the last one
ExceptionIsLoggedWitness ==
    /\ mgrOut[1] = "raised"
    /\ mgrOut[2] \in Errors
    /\ Len(logs) > 0
    /\ logs[Len(logs)].level = "ERROR"

\* C28 (as stated): the core never blocks on the sink: whatever a callback
\* does with an event, the transition that emitted the event still completes,
\* i.e. no step that emits an event ends inside a callback.
C28_NeverBlocksOnSink == [][(nextId' # nextId) => ~blocked']_vars

\* the entries of orchestration o in the log of manager m
EventsOf(o, m) == {i \in 1..Len(mgrLogs[m]) : mgrLogs[m][i].message[1] = o}

ConstructedWithoutSink(o) == orchMgr[o] # NoManager /\ ~orchGiven[o]

\* C29 (as stated): when no sink is supplied to the orchestration, event
\* emission is a no-op: no event of that run is recorded in any manager.
C29_NoSinkIsNoOp ==
    \A o \in Orchestrations : ConstructedWithoutSink(o) =>
        \A m \in 1..MaxManagers : EventsOf(o, m) = {}

\* C29 (amended): an orchestration constructed without a sink takes the
\* process-wide default manager, which is created at that moment if there is
\* none and is otherwise the existing one; the events an orchestration emits
\* are recorded in the log of the manager it holds and in no other, so
\* orchestrations constructed without a sink under the same default manager
\* share one log.
C29_NoSinkUsesGlobal ==
    [][/\ \A o \in Orchestrations :
            (orchMgr[o] = NoManager /\ ConstructedWithoutSink(o)') =>
                /\ orchMgr'[o] = globalMgr'
                /\ globalMgr' # NoManager
                /\ globalMgr # NoManager => globalMgr' = globalMgr
       /\ \A o \in Orchestrations, m \in 1..MaxManagers :
            EventsOf(o, m)' # {} => m = orchMgr'[o]
      ]_vars

\* two orchestrations constructed without a sink hold the same manager and
\* its log contains events of both
C29_Witness ==
    /\ ConstructedWithoutSink("o1") /\ ConstructedWithoutSink("o2")
    /\ orchMgr["o1"] = orchMgr["o2"]
    /\ EventsOf("o1", orchMgr["o1"]) # {}
    /\ EventsOf("o2", orchMgr["o1"]) # {}

\* C35 (as stated): every invocation of plan, replan, create_progress_ledger
\* or prepare_final_answer records one start entry and, when it ends, exactly
\* one outcome entry: the completion entry when the underlying call returned,
\* the ERROR entry when it raised; never neither.
C35_StartThenOneOutcome ==
    [][/\ (mgrOp = NoValue /\ mgrOp' # NoValue) =>
            /\ Len(logs') = Len(logs) + 1
            /\ logs'[Len(logs')].message = <<mgrOp', "start">>
       /\ (mgrOp # NoValue /\ mgrOp' = NoValue) =>
            /\ Len(logs') = Len(logs) + 1
            /\ mgrOut'[1] = "returned" =>
                    logs'[Len(logs')].message = <<mgrOp, "completed">>
            /\ mgrOut'[1] = "raised" =>
                    logs'[Len(logs')].message = <<mgrOp, "error">>
      ]_vars

\* number of times cb is registered in the list cbs
RECURSIVE Registrations(_, _)
Registrations(cbs, cb) ==
    IF cbs = <<>> THEN 0
    ELSE (IF Head(cbs) = cb THEN 1 ELSE 0) + Registrations(Tail(cbs), cb)

\* C36 (as stated): every call to log puts exactly one entry at the end of
\* logs and invokes every registered callback exactly once with that entry.
C36_EveryCallbackOnce ==
    [][(nextId' # nextId) =>
        /\ Len(logs') >= 1
        /\ logs'[Len(logs')].id = nextId'
        /\ \A cb \in Callbacks :
            /\ Len(delivered'[cb]) = Len(delivered[cb]) + Registrations(callbacks, cb)
            /\ \A i \in (Len(delivered[cb]) + 1)..Len(delivered'[cb]) :
                    delivered'[cb][i] = nextId'
      ]_vars

\* What log() does guarantee: the same, for every call in which each
\* callback returned or raised an Exception.
CompletedLogCallsEveryCallbackOnce ==
    [][(nextId' # nextId /\ ~blocked') =>
        /\ Len(logs') >= 1
        /\ logs'[Len(logs')].id = nextId'
        /\ \A cb \in Callbacks :
            /\ Len(delivered'[cb]) = Len(delivered[cb]) + Registrations(callbacks, cb)
            /\ \A i \in (Len(delivered[cb]) + 1)..Len(delivered'[cb]) :
                    delivered'[cb][i] = nextId'
      ]_vars

\* ---- chat backend ----
\* a request was answered in this step
Answered(ops, statuses) ==
    /\ reqNo' = reqNo + 1
    /\ resp'.op \in ops
    /\ resp'.status \in statuses

Rows(msgs) == {msgs[i] : i \in 1..Len(msgs)}

\* C33: a POST /chat answered 200 without streaming appends exactly a user
\* message and then an assistant message, both of the session whose id it
\* returns; without session_id in the request that session is the one new
\* session the step creates, with an existing session_id it is that session
\* and no session is created or changed.
C33_ChatPersistsExchange ==
    [][(Answered({"chat"}, {200}) /\ ~resp'.streaming) =>
        LET n == Len(messages)
            sid == resp'.sid
        IN /\ Len(messages') = n + 2
           /\ SubSeq(messages', 1, n) = messages
           /\ messages'[n + 1].message_type = "user"
           /\ messages'[n + 1].session_id = sid
           /\ messages'[n + 2].message_type = "assistant"
           /\ messages'[n + 2].session_id = sid
           /\ IF resp'.given = NoSession
              THEN /\ sid \notin DOMAIN sessions
                   /\ DOMAIN sessions' = (DOMAIN sessions) \cup {sid}
                   /\ \A i \in DOMAIN sessions : sessions'[i] = sessions[i]
              ELSE /\ sid = resp'.given
                   /\ sessions' = sessions]_vars

\* a chat into an existing session has been served and its two messages are
\* the last two stored
ChatIntoExistingSessionServed ==
    /\ resp.op = "chat" /\ resp.status = 200 /\ ~resp.streaming
    /\ resp.given # NoSession
    /\ resp.given \in DOMAIN sessions
    /\ Len(messages) >= 2
    /\ messages[Len(messages) - 1].message_type = "user"
    /\ messages[Len(messages)].message_type = "assistant"
    /\ messages[Len(messages)].session_id = resp.given

\* C34: GET, PUT and DELETE /sessions/<id> answer 404 exactly when no session
\* has that id, and then change nothing; a served DELETE removes the session
\* and every message of it and nothing else; no other step removes a session;
\* and an id, once removed, is never given to a later session.
C34_SessionLifecycle ==
    [][/\ Answered({"get_session", "update_session", "delete_session"},
                  {200, 404}) =>
           /\ (resp'.status = 404) <=> (resp'.sid \notin DOMAIN sessions)
           /\ resp'.status = 404 =>
                  (sessions' = sessions /\ messages' = messages)
           /\ (resp'.op = "delete_session" /\ resp'.status = 200) =>
                  /\ DOMAIN sessions' = (DOMAIN sessions) \ {resp'.sid}
                  /\ \A i \in DOMAIN sessions' : sessions'[i] = sessions[i]
                  /\ Rows(messages') =
                         {m \in Rows(messages) : m.session_id # resp'.sid}
       /\ \A i \in DOMAIN sessions :
              i \notin DOMAIN sessions' =>
                  (Answered({"delete_session"}, {200}) /\ resp'.sid = i)
       /\ \A i \in DOMAIN sessions' :
              i \notin DOMAIN sessions => i >= nextSid]_vars

\* a session that had been created was deleted, and the next request for it
\* was answered 404
DeletedSessionAnswered404 ==
    /\ resp.op \in {"get_session", "update_session", "delete_session"}
    /\ resp.status = 404
    /\ resp.sid < nextSid
    /\ resp.sid \notin DOMAIN sessions
    /\ \A i \in 1..Len(messages) : messages[i].session_id # resp.sid

IsBlank(text) == \A i \in 1..Len(text) : text[i] = " "

\* the events of the generator so far: one chunk event per chunk, in order,
\* and once it has ended exactly one more, a 'complete' or an 'error'
StreamEventsInOrder ==
    LET n == Len(stream.chunks)
    IN /\ \A i \in 1..n :
              /\ i <= Len(stream.events)
              /\ stream.events[i].type = "chunk"
              /\ stream.events[i].content = stream.chunks[i]
       /\ IF stream.pc = "done"
          THEN /\ Len(stream.events) = n + 1
               /\ stream.events[n + 1].type \in {"complete", "error"}
          ELSE Len(stream.events) = n
       /\ stream.saved <= 1
       /\ stream.saved = 1 =>
              (stream.pc = "done" /\ ~IsBlank(Join(stream.chunks)))

\* C37: the generator yields one 'chunk' event per chunk of the LLM client, in
\* order, and ends with exactly one 'complete' or 'error' event; it stores an
\* assistant message at most once, in its last step, holding the joined
\* chunks, and only when they are not blank; its other steps store nothing.
C37_StreamEventsAndSave ==
    [][/\ StreamEventsInOrder'
       /\ reqNo' = reqNo =>
              IF stream'.saved = stream.saved + 1
              THEN /\ stream.pc = "running" /\ stream'.pc = "done"
                   /\ Len(messages') = Len(messages) + 1
                   /\ SubSeq(messages', 1, Len(messages)) = messages
                   /\ messages'[Len(messages')].message_type = "assistant"
                   /\ messages'[Len(messages')].session_id = stream.sid
                   /\ messages'[Len(messages')].content = Join(stream.chunks)
              ELSE messages' = messages]_vars

\* a stream of two chunks has ended with 'complete' after storing its message
StreamCompletedAndSaved ==
    /\ stream.pc = "done"
    /\ Len(stream.chunks) = 2
    /\ stream.saved = 1
    /\ stream.events[3].type = "complete"
    /\ \E i \in 1..Len(messages) :
           /\ messages[i].id = stream.events[3].message_id
           /\ messages[i].content = Join(stream.chunks)

\* C38: a POST /chat answered 400, 404 or 500 leaves the sessions and the
\* messages as they were.
C38_ChatErrorLeavesDataUnchanged ==
    [][Answered({"chat"}, {400, 404, 500}) =>
        (sessions' = sessions /\ messages' = messages)]_vars

====
